---- MODULE Spec2Model ----
(***************************************************************************)
(* A model of ghttp's request execution loop, Client.DoRequest: the        *)
(* options a call is built from, the hook pipeline, the transport          *)
(* dispatch, the outcome classification, the retry wait and the decoding   *)
(* of the response.  One call is followed from its entry to its return;    *)
(* the caller's context and the per-attempt timeout are the environment.   *)
(***************************************************************************)
EXTENDS Integers, Sequences, FiniteSets, TLC

(***************************************************************************)
(* Bounds of the model.                                                    *)
(***************************************************************************)
MaxRetry == 2          \* largest retry budget given through WithRetry
MaxHooks == 2          \* most hooks registered at one level (call, client)
MaxParams == 2         \* most parameters after the media type of a header
MaxTimerFires == 2     \* how often the backoff timer is followed in one wait

(***************************************************************************)
(* Program constants.                                                      *)
(***************************************************************************)
TypeJSON == <<"application/json">>
TypeXML == <<"application/xml">>
TypeForm == <<"application/x-www-form-urlencoded">>
TypeHTML == <<"text/html">>
TypeText == <<"text/plain">>
defaultTimeout == 60
defaultContentType == TypeJSON
StatusOK == 200
EventPrev == 0
EventPost == 1

(***************************************************************************)
(* Values.  A string that is searched for ';' is a sequence of pieces,     *)
(* each piece either the byte ";" or a run of bytes without one.           *)
(***************************************************************************)
Nil == [kind |-> "nil"]
ErrNoData == [kind |-> "ErrNoData"]
ErrNotSupport == [kind |-> "ErrNotSupport"]
ErrInvalidType == [kind |-> "ErrInvalidType"]
Semi == ";"
Param == "charset=utf-8"

\* the three states of a context: not done, or done with one of two errors
Active == "active"
Canceled == "Canceled"
DeadlineExceeded == "DeadlineExceeded"

VARIABLES
  pc,          \* where the call is: Building, Attempting, Dispatch, PostSend,
               \* Classify, Retrying, Returned, Panicked
  opts,        \* the Option values the caller passed
  chooks,      \* Client.hooks
  o,           \* the Options built for this call
  body,        \* the encoded request body
  hooks,       \* the combined hook list of the call
  i,           \* attempt index of the loop
  callCtx,     \* state of o.Context
  attemptCtx,  \* state of the context derived for the current attempt
  ev,          \* the Event handed to the hooks
  rsp,         \* response of the last dispatch
  err,         \* error of the last dispatch
  ret,         \* what DoRequest returned
  hookLog,     \* every hook invocation: phase, attempt index, hook
  dispatches,  \* every transport dispatch: attempt index, outcome
  nextCalls,   \* number of Backoff.Next calls
  timerFired,  \* number of times the wait followed the timer
  decodeLog,   \* every decode call: content type, bytes, kind of destination
  resolve,     \* the URL resolution of a call: its inputs and the URL requested
  codec,       \* one encode and decode of a value: input, bytes, destination
  builder,     \* an Options value the Add methods are applied to
  share,       \* calls that are given one Options value: the heap they act on
  sent         \* the request objects of a call whose hooks change the request

\* the state of one followed call
callvars == <<pc, opts, chooks, o, body, hooks, i, callCtx,
              attemptCtx, ev, rsp, err, ret, hookLog, dispatches, nextCalls,
              timerFired, decodeLog>>

\* the state of the parts of the program that are followed on their own
aux == <<resolve, codec, builder, share, sent>>

vars == <<callvars, aux>>

\* a part that is not followed
Unused == [kind |-> "unused"]

AuxIdle ==
  /\ resolve = Unused
  /\ codec = Unused
  /\ builder = Unused
  /\ share = Unused
  /\ sent = Unused

(***************************************************************************)
(* Options.                                                                *)
(***************************************************************************)
HookIds(level, n) == [k \in 1..n |-> [level |-> level, idx |-> k]]

ZeroOptions ==
  [Context |-> "nil", Timeout |-> 0, Retry |-> 0, Backoff |-> "nil",
   ContentType |-> <<>>, Hooks |-> <<>>]

\* one Option function applied to the Options
ApplyOption(opt, op) ==
  CASE opt.name = "WithRetry" -> [op EXCEPT !.Retry = opt.val]
    [] opt.name = "WithTimeout" -> [op EXCEPT !.Timeout = opt.val]
    [] opt.name = "WithBackoff" -> [op EXCEPT !.Backoff = opt.val]
    [] opt.name = "WithContentType" -> [op EXCEPT !.ContentType = opt.val]
    [] opt.name = "AddHooks" -> [op EXCEPT !.Hooks = op.Hooks \o opt.val]

RECURSIVE ApplyAll(_, _)
ApplyAll(os, op) ==
  IF os = <<>> THEN op ELSE ApplyAll(Tail(os), ApplyOption(Head(os), op))

\* Options.build: the defaults, then every option in order
build(os) ==
  ApplyAll(os, [ZeroOptions EXCEPT !.Timeout = defaultTimeout,
                                   !.ContentType = defaultContentType,
                                   !.Context = "call",
                                   !.Backoff = "defaultBackoff"])

Opt(name, vals) == {<<>>} \cup {<<[name |-> name, val |-> v]>> : v \in vals}

OptionLists ==
  {r \o t \o b \o c \o h :
     r \in Opt("WithRetry", 1..MaxRetry),
     t \in Opt("WithTimeout", {0}),
     b \in Opt("WithBackoff", {"nil"}),
     c \in Opt("WithContentType", {TypeXML}),
     h \in Opt("AddHooks", {HookIds("call", n) : n \in 1..MaxHooks})}

(***************************************************************************)
(* Hook pipeline.                                                          *)
(***************************************************************************)
HookErr(h) == [kind |-> "hook", hook |-> h]

SetPrev(e, num) == [e EXCEPT !.Type = EventPrev, !.Num = num]

SetPost(e, r, er) == [e EXCEPT !.Type = EventPost, !.Rsp = r, !.Err = er]

\* Hooks.Run from position k on; fails is the set of positions whose hook
\* returns an error when invoked with this event.  called lists the
\* invocations made: the event's phase and attempt index, the hook, and
\* whether it returned an error
RECURSIVE RunFrom(_, _, _, _)
RunFrom(hs, e, fails, k) ==
  IF k > Len(hs) THEN [called |-> <<>>, err |-> Nil]
  ELSE LET inv == [Type |-> e.Type, Num |-> e.Num, hook |-> hs[k],
                    failed |-> k \in fails] IN
       IF k \in fails THEN [called |-> <<inv>>, err |-> HookErr(hs[k])]
       ELSE LET rest == RunFrom(hs, e, fails, k + 1) IN
            [called |-> <<inv>> \o rest.called, err |-> rest.err]

Run(hs, e, fails) == RunFrom(hs, e, fails, 1)

\* the client's hooks put before the call's
CombinedHooks_clientFirst(oh, ch) == ch \o oh

\* hooks := append(o.Hooks, c.hooks...)
CombinedHooks(oh, ch) == oh \o ch

(***************************************************************************)
(* Content codec.                                                          *)
(***************************************************************************)
ReqBytes == [kind |-> "bytes", data |-> <<"q">>]
RspBytes == <<"r">>

\* encode: data is the kind of the request value; marshalFails tells whether
\* the structured marshal of this value fails
encode(contentType, data, marshalFails) ==
  IF data = "nil" THEN [bytes |-> Nil, err |-> Nil]
  ELSE IF data = "string" THEN [bytes |-> ReqBytes, err |-> Nil]
  ELSE IF contentType \in {TypeJSON, TypeXML}
    THEN IF marshalFails THEN [bytes |-> Nil, err |-> [kind |-> "marshal"]]
         ELSE [bytes |-> ReqBytes, err |-> Nil]
  ELSE IF contentType = TypeForm THEN [bytes |-> Nil, err |-> ErrNotSupport]
  ELSE IF contentType \in {TypeHTML, TypeText}
    THEN [bytes |-> Nil, err |-> ErrInvalidType]
  ELSE [bytes |-> Nil, err |-> ErrNotSupport]

\* decode: res is the kind of the destination; unmarshalFails tells whether
\* the structured unmarshal of these bytes into it fails
decode(contentType, data, res, unmarshalFails) ==
  IF res = "nil" THEN Nil
  ELSE IF Len(data) = 0 THEN ErrNoData
  ELSE IF res = "struct" THEN ErrInvalidType
  ELSE IF res = "ptrString" THEN Nil
  ELSE IF contentType \in {TypeJSON, TypeXML}
    THEN IF unmarshalFails THEN [kind |-> "unmarshal"] ELSE Nil
  ELSE ErrNotSupport

\* strings.LastIndexByte(content, ';'), 0 when there is none (positions from 1)
LastIndexByte(content, c) ==
  LET at == {k \in 1..Len(content) : content[k] = c} IN
  IF at = {} THEN 0 ELSE CHOOSE k \in at : \A j \in at : j <= k

parseContentType(content) ==
  LET idx == LastIndexByte(content, Semi) IN
  IF idx = 0 THEN content ELSE SubSeq(content, 1, idx - 1)

(***************************************************************************)
(* Transport and errors.                                                   *)
(***************************************************************************)
TransportErr(num, cause) == [kind |-> "transport", cause |-> cause, Num |-> num]

\* every transport error taken for a timeout
isTimeoutErr_any(e) == e.kind = "transport"

\* err.(net.Error) && err.Timeout(): the transport's own timeout, or a
\* request context whose deadline has passed
isTimeoutErr(e) == e.kind = "transport" /\ e.cause \in {"Timeout", DeadlineExceeded}

\* the status text left out of the error
StatusErr_noInfo(code, info) == [kind |-> "status", Code |-> code, Info |-> <<>>]

StatusErr(code, info) == [kind |-> "status", Code |-> code, Info |-> info]

IsStatusErr(e) == e.kind = "status"

StatusText(code) == <<code, "text">>

Response(code, ctype, bytes) ==
  [kind |-> "rsp", StatusCode |-> code, Status |-> StatusText(code),
   ContentType |-> ctype, Body |-> bytes]

RECURSIVE Params(_)
Params(n) == IF n = 0 THEN <<>> ELSE <<Semi, Param>> \o Params(n - 1)

\* values of a response's Content-Type header; <<>> is an absent header
HeaderValues ==
  {<<>>} \cup {m \o Params(n) : m \in {TypeJSON, TypeXML, TypeText}, n \in 0..MaxParams}

Responses ==
  {Response(StatusOK, h, RspBytes) : h \in HeaderValues}
    \cup {Response(StatusOK, TypeJSON, <<>>)}
    \cup {Response(c, TypeJSON, RspBytes) : c \in {204, 404}}

\* what c.client.Do(req) can return on attempt num with the request's context
\* in state ctx
TransportOutcomes(ctx, num) ==
  IF ctx # Active
    THEN {[rsp |-> Nil, err |-> TransportErr(num, ctx)]}
    ELSE {[rsp |-> r, err |-> Nil] : r \in Responses}
           \cup {[rsp |-> Nil, err |-> TransportErr(num, c)] : c \in {"Timeout", "Refused"}}
           \cup {[rsp |-> Response(302, <<>>, <<>>), err |-> TransportErr(num, "Redirect")]}

(***************************************************************************)
(* Contexts.                                                               *)
(***************************************************************************)
\* context.WithTimeout(parent, d): already done when the parent is
WithTimeout(parent) == parent

\* req.Context() inside the loop
ReqCtx == IF o.Timeout > 0 THEN attemptCtx ELSE callCtx

(***************************************************************************)
(* Initial state: DoRequest is entered with its arguments.                 *)
(***************************************************************************)
Init ==
  /\ pc = "Building"
  /\ opts \in OptionLists
  /\ chooks \in {HookIds("client", n) : n \in 0..MaxHooks}
  /\ o = ZeroOptions
  /\ body = Nil
  /\ hooks = <<>>
  /\ i = 0
  /\ callCtx = Active
  /\ attemptCtx = "none"
  /\ ev = [Type |-> EventPrev, Num |-> 0, Rsp |-> Nil, Err |-> Nil]
  /\ rsp = Nil
  /\ err = Nil
  /\ ret = Nil
  /\ hookLog = <<>>
  /\ dispatches = <<>>
  /\ nextCalls = 0
  /\ timerFired = 0
  /\ decodeLog = <<>>
  /\ AuxIdle

\* no call is followed
CallIdle ==
  /\ pc = "Idle"
  /\ opts = <<>>
  /\ chooks = <<>>
  /\ o = ZeroOptions
  /\ body = Nil
  /\ hooks = <<>>
  /\ i = 0
  /\ callCtx = Active
  /\ attemptCtx = "none"
  /\ ev = [Type |-> EventPrev, Num |-> 0, Rsp |-> Nil, Err |-> Nil]
  /\ rsp = Nil
  /\ err = Nil
  /\ ret = Nil
  /\ hookLog = <<>>
  /\ dispatches = <<>>
  /\ nextCalls = 0
  /\ timerFired = 0
  /\ decodeLog = <<>>


(***************************************************************************)
(* DoRequest.                                                              *)
(***************************************************************************)
Terminal == pc \in {"Returned", "Panicked"}

\* return r, e
Return(r, e) == pc' = "Returned" /\ ret' = [rsp |-> r, err |-> e]

\* lines 59-92: build the options, encode the body, make the request and
\* the event, combine the hooks
Build ==
  /\ pc = "Building"
  /\ o' = build(opts)
  /\ \E data \in {"nil", "string", "struct"}, marshalFails, newReqFails \in BOOLEAN :
       LET enc == encode(o'.ContentType, data, marshalFails) IN
       IF enc.err # Nil
         THEN Return(Nil, enc.err) /\ UNCHANGED <<body, hooks>>
       ELSE IF newReqFails
         THEN Return(Nil, [kind |-> "NewRequest"]) /\ UNCHANGED <<body, hooks>>
       ELSE /\ body' = enc.bytes
            /\ hooks' = CombinedHooks(o'.Hooks, chooks)
            /\ pc' = "Attempting"
            /\ UNCHANGED ret
  /\ UNCHANGED <<opts, chooks, i, callCtx, attemptCtx, ev, rsp, err,
                 hookLog, dispatches, nextCalls, timerFired, decodeLog>>
  /\ UNCHANGED aux

\* the pre-send hooks' error dropped: the attempt goes on to the dispatch
PreSend_ignoreErr ==
  /\ pc = "Attempting"
  /\ attemptCtx' = IF o.Timeout > 0 THEN WithTimeout(callCtx) ELSE attemptCtx
  /\ ev' = SetPrev(ev, i)
  /\ \E fails \in SUBSET (1..Len(hooks)) :
       hookLog' = hookLog \o Run(hooks, ev', fails).called
  /\ pc' = "Dispatch"
  /\ UNCHANGED <<opts, chooks, o, body, hooks, i, callCtx, rsp, err, ret,
                 dispatches, nextCalls, timerFired, decodeLog>>
  /\ UNCHANGED aux

\* lines 95-107: attach the body, derive the attempt's context, run the
\* hooks in pre-send phase
PreSend ==
  /\ pc = "Attempting"
  /\ attemptCtx' = IF o.Timeout > 0 THEN WithTimeout(callCtx) ELSE attemptCtx
  /\ ev' = SetPrev(ev, i)
  /\ \E fails \in SUBSET (1..Len(hooks)) :
       LET r == Run(hooks, ev', fails) IN
       /\ hookLog' = hookLog \o r.called
       /\ IF r.err # Nil THEN Return(Nil, r.err)
          ELSE pc' = "Dispatch" /\ UNCHANGED ret
  /\ UNCHANGED <<opts, chooks, o, body, hooks, i, callCtx, rsp, err,
                 dispatches, nextCalls, timerFired, decodeLog>>
  /\ UNCHANGED aux

\* line 109: rsp, err := c.client.Do(req)
Dispatch ==
  /\ pc = "Dispatch"
  /\ \E out \in TransportOutcomes(ReqCtx, i) :
       /\ rsp' = out.rsp
       /\ err' = out.err
       /\ dispatches' = Append(dispatches, [Num |-> i, rsp |-> out.rsp, err |-> out.err])
  /\ pc' = "PostSend"
  /\ UNCHANGED <<opts, chooks, o, body, hooks, i, callCtx, attemptCtx,
                 ev, ret, hookLog, nextCalls, timerFired, decodeLog>>
  /\ UNCHANGED aux

\* the post-send hooks' error dropped when the transport succeeded
PostSend_ignoreErr ==
  /\ pc = "PostSend"
  /\ ev' = SetPost(ev, rsp, err)
  /\ \E fails \in SUBSET (1..Len(hooks)) :
       LET r == Run(hooks, ev', fails) IN
       /\ hookLog' = hookLog \o r.called
       /\ IF r.err # Nil /\ err # Nil THEN Return(Nil, r.err)
          ELSE pc' = "Classify" /\ UNCHANGED ret
  /\ UNCHANGED <<opts, chooks, o, body, hooks, i, callCtx, attemptCtx,
                 rsp, err, dispatches, nextCalls, timerFired, decodeLog>>
  /\ UNCHANGED aux

\* lines 110-113: run the hooks in post-send phase
PostSend ==
  /\ pc = "PostSend"
  /\ ev' = SetPost(ev, rsp, err)
  /\ \E fails \in SUBSET (1..Len(hooks)) :
       LET r == Run(hooks, ev', fails) IN
       /\ hookLog' = hookLog \o r.called
       /\ IF r.err # Nil THEN Return(Nil, r.err)
          ELSE pc' = "Classify" /\ UNCHANGED ret
  /\ UNCHANGED <<opts, chooks, o, body, hooks, i, callCtx, attemptCtx,
                 rsp, err, dispatches, nextCalls, timerFired, decodeLog>>
  /\ UNCHANGED aux

\* lines 122-125: the content type the response is decoded with
DecodeType(r) ==
  IF Len(r.ContentType) # 0 THEN parseContentType(r.ContentType) ELSE o.ContentType

\* the response handed back together with the status error
StatusReturn_withRsp(r) == Return(r, StatusErr(r.StatusCode, r.Status))

\* line 117
StatusReturn(r) == Return(Nil, StatusErr(r.StatusCode, r.Status))

\* lines 120-139 with a result destination of kind res: read the body, put a
\* body back, decode, return the response
Decode(res) ==
  \E readFails, unmarshalFails \in BOOLEAN :
    IF readFails
      THEN Return(Nil, [kind |-> "ReadAll"]) /\ UNCHANGED <<rsp, decodeLog>>
      ELSE LET contentType == DecodeType(rsp)
               rspBody == rsp.Body
               d == decode(contentType, rspBody, res, unmarshalFails)
           IN /\ rsp' = [rsp EXCEPT !.Body = IF body = Nil THEN <<>> ELSE body.data]
              /\ decodeLog' = Append(decodeLog, [contentType |-> contentType,
                                                 data |-> rspBody, result |-> res])
              /\ IF d # Nil THEN Return(Nil, d) ELSE Return(rsp', Nil)

\* lines 140-141: the retry condition and the call of the backoff policy
Retry ==
  IF o.Backoff = "nil"
    THEN pc' = "Panicked" /\ UNCHANGED nextCalls
    ELSE pc' = "Retrying" /\ nextCalls' = nextCalls + 1

\* lines 115-152: the outcome of the attempt
Classify ==
  /\ pc = "Classify"
  /\ IF err = Nil
       THEN IF rsp.StatusCode # StatusOK
              THEN StatusReturn(rsp) /\ UNCHANGED <<rsp, decodeLog, nextCalls>>
            ELSE \E result \in {"nil", "ptrString", "ptrStruct", "struct"} :
                   IF result # "nil"
                     THEN Decode(result) /\ UNCHANGED nextCalls
                     ELSE Return(rsp, Nil) /\ UNCHANGED <<rsp, decodeLog, nextCalls>>
     ELSE IF isTimeoutErr(err) /\ i < o.Retry
       THEN Retry /\ UNCHANGED <<rsp, decodeLog, ret>>
     ELSE Return(Nil, err) /\ UNCHANGED <<rsp, decodeLog, nextCalls>>
  /\ UNCHANGED <<opts, chooks, o, body, hooks, i, callCtx, attemptCtx,
                 ev, err, hookLog, dispatches, timerFired>>
  /\ UNCHANGED aux

\* lines 144-145: the request's context is done
WaitCtxDone ==
  /\ pc = "Retrying"
  /\ ReqCtx # Active
  /\ Return(Nil, [kind |-> "ctx", err |-> ReqCtx])
  /\ UNCHANGED <<opts, chooks, o, body, hooks, i, callCtx, attemptCtx,
                 ev, rsp, err, hookLog, dispatches, nextCalls, timerFired, decodeLog>>
  /\ UNCHANGED aux

\* lines 146-147: the timer fires; break leaves the select statement, and the
\* enclosing for statement starts the select again with a new timer
WaitTimer ==
  /\ pc = "Retrying"
  /\ timerFired < MaxTimerFires
  /\ timerFired' = timerFired + 1
  /\ pc' = "Retrying"
  /\ UNCHANGED <<opts, chooks, o, body, hooks, i, callCtx, attemptCtx,
                 ev, rsp, err, ret, hookLog, dispatches, nextCalls, decodeLog>>
  /\ UNCHANGED aux

(***************************************************************************)
(* Environment: the caller's context and the attempt's deadline.           *)
(***************************************************************************)
CancelCall ==
  /\ ~Terminal
  /\ callCtx = Active
  /\ \E e \in {Canceled, DeadlineExceeded} :
       /\ callCtx' = e
       /\ attemptCtx' = IF attemptCtx = Active THEN e ELSE attemptCtx
  /\ UNCHANGED <<pc, opts, chooks, o, body, hooks, i, ev, rsp, err, ret,
                 hookLog, dispatches, nextCalls, timerFired, decodeLog>>
  /\ UNCHANGED aux

AttemptDeadline ==
  /\ ~Terminal
  /\ attemptCtx = Active
  /\ attemptCtx' = DeadlineExceeded
  /\ UNCHANGED <<pc, opts, chooks, o, body, hooks, i, callCtx, ev, rsp,
                 err, ret, hookLog, dispatches, nextCalls, timerFired, decodeLog>>
  /\ UNCHANGED aux

Next ==
  \/ Build
  \/ PreSend
  \/ Dispatch
  \/ PostSend
  \/ Classify
  \/ WaitCtxDone
  \/ WaitTimer
  \/ CancelCall
  \/ AttemptDeadline

Spec == Init /\ [][Next]_vars

(***************************************************************************)
(* Properties.  They read the history the call leaves behind (hookLog,     *)
(* dispatches, nextCalls, timerFired, decodeLog) and what it returned.     *)
(***************************************************************************)
Last(s) == s[Len(s)]

\* a dispatch that ended in a transport error of one of the given causes
FailedWith(d, causes) == d.err # Nil /\ d.err.cause \in causes

TimeoutCauses == {"Timeout", DeadlineExceeded}
OtherCauses == {"Refused", "Redirect", Canceled}

\* the hook invocations of one pipeline run, in the order they were made
RunOf(type, num) == SelectSeq(hookLog, LAMBDA x : x.Type = type /\ x.Num = num)

\* the call returned the error of a hook that failed in the given phase of
\* attempt num, and that invocation was the last one made
ReturnedHookErr(type, num) ==
  /\ hookLog # <<>>
  /\ Last(hookLog).failed
  /\ Last(hookLog).Type = type
  /\ Last(hookLog).Num = num
  /\ ret = [rsp |-> Nil, err |-> [kind |-> "hook", hook |-> Last(hookLog).hook]]

\* C1: with every dispatch ending in a timeout-classified error and the
\* call's context never cancelled, a call that returns (other than by a
\* hook's error) has made exactly Retry + 1 dispatches, with attempt indices
\* 0..Retry, and returns the timeout error of the last one.
C1_RetryBudgetExhaustion ==
  ( /\ pc = "Returned"
    /\ callCtx = Active
    /\ dispatches # <<>>
    /\ \A k \in 1..Len(dispatches) : FailedWith(dispatches[k], TimeoutCauses)
    /\ ret.err.kind # "hook" )
  => /\ Len(dispatches) = o.Retry + 1
     /\ \A k \in 1..Len(dispatches) : dispatches[k].Num = k - 1
     /\ ret = [rsp |-> Nil, err |-> Last(dispatches).err]

\* C2: a step of the retry wait in which the backoff timer fires while the
\* call's context is not cancelled leaves the wait for the next attempt
\* (index + 1); the wait is not entered again for the same retry.
C2_RetryWaitProgress ==
  [][ (pc = "Retrying" /\ callCtx = Active /\ timerFired' = timerFired + 1)
        => (pc' = "Attempting" /\ i' = i + 1) ]_vars

\* C3: a call that ends its retry wait with a cancellation error does so only
\* when the call's own context is done, returns that context's error, and
\* has made no dispatch and no hook invocation since the wait began.
C3_CancellationWinsRace ==
  (pc = "Returned" /\ ret.err.kind = "ctx")
  => /\ callCtx # Active
     /\ ret = [rsp |-> Nil, err |-> [kind |-> "ctx", err |-> callCtx]]
     /\ Len(dispatches) = i + 1
     /\ hookLog # <<>> => (Last(hookLog).Type = EventPost /\ Last(hookLog).Num = i)

\* C4 as stated: once a dispatch has ended in a transport error that is not
\* timeout-classified, it stays the last dispatch, the backoff policy is not
\* consulted for it, the call does not wait, and the call returns that error.
C4_Original ==
  \A k \in 1..Len(dispatches) :
    FailedWith(dispatches[k], OtherCauses)
    => /\ k = Len(dispatches)
       /\ nextCalls = dispatches[k].Num
       /\ pc \in {"PostSend", "Classify", "Returned"}
       /\ pc = "Returned" => ret = [rsp |-> Nil, err |-> dispatches[k].err]

\* C4 as amended: the same, the call returning that transport error unless a
\* post-send hook of that attempt returned an error, which is then returned.
C4_NoRetryOnNonTimeout ==
  \A k \in 1..Len(dispatches) :
    FailedWith(dispatches[k], OtherCauses)
    => /\ k = Len(dispatches)
       /\ nextCalls = dispatches[k].Num
       /\ pc \in {"PostSend", "Classify", "Returned"}
       /\ pc = "Returned" =>
            \/ ret = [rsp |-> Nil, err |-> dispatches[k].err]
            \/ ReturnedHookErr(EventPost, dispatches[k].Num)

\* a non-timeout transport error on the first attempt of a call with a retry
\* budget was returned after exactly one dispatch
C4_Witness ==
  /\ pc = "Returned"
  /\ o.Retry >= 1
  /\ Len(dispatches) = 1
  /\ FailedWith(dispatches[1], {"Refused"})
  /\ ret.err = dispatches[1].err

\* a dispatch that succeeded with a status code other than 200
NotOK(d) == d.err = Nil /\ d.rsp.StatusCode # 200

\* C5 as stated: once a dispatch has succeeded with a status other than 200,
\* it stays the last dispatch, nothing is decoded, the call does not retry,
\* and the call returns a StatusErr with that code and status text.
C5_Original ==
  \A k \in 1..Len(dispatches) :
    NotOK(dispatches[k])
    => /\ k = Len(dispatches)
       /\ decodeLog = <<>>
       /\ nextCalls = dispatches[k].Num
       /\ pc \in {"PostSend", "Classify", "Returned"}
       /\ pc = "Returned" =>
            ret = [rsp |-> Nil,
                   err |-> [kind |-> "status",
                            Code |-> dispatches[k].rsp.StatusCode,
                            Info |-> dispatches[k].rsp.Status]]

\* C5 as amended: the same, the call returning the StatusErr unless a
\* post-send hook of that attempt returned an error, which is then returned.
C5_StatusCodeGating ==
  \A k \in 1..Len(dispatches) :
    NotOK(dispatches[k])
    => /\ k = Len(dispatches)
       /\ decodeLog = <<>>
       /\ nextCalls = dispatches[k].Num
       /\ pc \in {"PostSend", "Classify", "Returned"}
       /\ pc = "Returned" =>
            \/ ret = [rsp |-> Nil,
                      err |-> [kind |-> "status",
                               Code |-> dispatches[k].rsp.StatusCode,
                               Info |-> dispatches[k].rsp.Status]]
            \/ ReturnedHookErr(EventPost, dispatches[k].Num)

\* a 404 on the first attempt of a call with a retry budget was returned as
\* a StatusErr after exactly one dispatch
C5_Witness ==
  /\ pc = "Returned"
  /\ o.Retry >= 1
  /\ Len(dispatches) = 1
  /\ NotOK(dispatches[1])
  /\ dispatches[1].rsp.StatusCode = 404
  /\ IsStatusErr(ret.err)
  /\ ret.err.Code = 404

\* a post-send hook returned an error on an attempt whose dispatch succeeded
\* with status 200
PostHookFailedOn200(k) ==
  /\ hookLog[k].Type = EventPost
  /\ hookLog[k].failed
  /\ \E d \in 1..Len(dispatches) :
       /\ dispatches[d].Num = hookLog[k].Num
       /\ dispatches[d].err = Nil
       /\ dispatches[d].rsp.StatusCode = 200

\* C6: when a post-send hook has returned an error on an attempt whose
\* dispatch succeeded with status 200, the call has returned that hook's
\* error with a nil response, nothing was decoded, the backoff policy was
\* not consulted for the attempt and no later invocation or dispatch exists.
C6_HookAbortPrecedence ==
  \A k \in 1..Len(hookLog) :
    PostHookFailedOn200(k)
    => /\ pc = "Returned"
       /\ ret = [rsp |-> Nil, err |-> [kind |-> "hook", hook |-> hookLog[k].hook]]
       /\ k = Len(hookLog)
       /\ decodeLog = <<>>
       /\ nextCalls = hookLog[k].Num
       /\ Len(dispatches) = hookLog[k].Num + 1

\* the second hook of the pipeline failed in post-send phase after a 200
C6_Witness ==
  /\ pc = "Returned"
  /\ Len(hookLog) >= 2
  /\ PostHookFailedOn200(Len(hookLog))
  /\ Last(hookLog).hook # hooks[1]

\* C7: when a pre-send hook has returned an error on attempt n, the call has
\* returned that hook's error, attempt n was not dispatched, no post-send
\* hook of the attempt and no later hook ran, the backoff policy was not
\* consulted for the attempt and no later attempt started.
C7_PreSendAbort ==
  \A k \in 1..Len(hookLog) :
    (hookLog[k].Type = EventPrev /\ hookLog[k].failed)
    => /\ pc = "Returned"
       /\ ret = [rsp |-> Nil, err |-> [kind |-> "hook", hook |-> hookLog[k].hook]]
       /\ k = Len(hookLog)
       /\ \A d \in 1..Len(dispatches) : dispatches[d].Num < hookLog[k].Num
       /\ RunOf(EventPost, hookLog[k].Num) = <<>>
       /\ nextCalls = hookLog[k].Num
       /\ i = hookLog[k].Num

\* a pre-send hook of a call with a retry budget failed
C7_Witness ==
  /\ pc = "Returned"
  /\ o.Retry >= 1
  /\ hookLog # <<>>
  /\ Last(hookLog).Type = EventPrev
  /\ Last(hookLog).failed
  /\ dispatches = <<>>

\* the hooks registered for the call (its AddHooks options, in order)
\* followed by those registered on the client
RECURSIVE Registered(_)
Registered(os) ==
  IF os = <<>> THEN chooks
  ELSE IF Head(os).name = "AddHooks" THEN Head(os).val \o Registered(Tail(os))
  ELSE Registered(Tail(os))

\* a run made the invocations of a prefix of the registered hooks, in order,
\* and stopped early only after a hook that failed
InOrder(run, expected) ==
  /\ Len(run) <= Len(expected)
  /\ \A k \in 1..Len(run) : run[k].hook = expected[k]
  /\ \A k \in 1..Len(run) : run[k].failed => k = Len(run)
  /\ (Len(run) < Len(expected) /\ run # <<>>) => Last(run).failed

Complete(run, expected) ==
  /\ Len(run) = Len(expected)
  /\ \A k \in 1..Len(run) : ~run[k].failed

\* C8: every pipeline run invokes the call-level hooks in registration order
\* and then the client-level hooks in registration order, up to the first
\* hook returning an error; the log is the runs of the attempts in order,
\* pre-send before post-send; an attempt at the dispatch has had its complete
\* pre-send run with the event at the attempt's index and no post-send run,
\* and an attempt past its post-send hooks has had its complete post-send run.
C8_HookPipelineOrder ==
  LET expected == Registered(opts) IN
  /\ \A n \in 0..i :
       /\ InOrder(RunOf(EventPrev, n), expected)
       /\ InOrder(RunOf(EventPost, n), expected)
  /\ \A k \in 1..Len(hookLog) : hookLog[k].Num \in 0..i
  /\ \A j, k \in 1..Len(hookLog) :
       j < k => \/ hookLog[j].Num < hookLog[k].Num
                \/ /\ hookLog[j].Num = hookLog[k].Num
                   /\ hookLog[j].Type <= hookLog[k].Type
  /\ pc \in {"Dispatch", "PostSend"} =>
       /\ Complete(RunOf(EventPrev, i), expected)
       /\ RunOf(EventPost, i) = <<>>
       /\ ev.Type = EventPrev /\ ev.Num = i
  /\ pc = "Dispatch" => Len(dispatches) = i
  /\ pc = "PostSend" => Len(dispatches) = i + 1
  /\ pc \in {"Classify", "Retrying", "Panicked"} =>
       /\ Complete(RunOf(EventPrev, i), expected)
       /\ Complete(RunOf(EventPost, i), expected)
       /\ ev.Type = EventPost /\ ev.Num = i
       /\ Len(dispatches) = i + 1

\* both phases ran two call-level hooks and then a client-level hook
C8_Witness ==
  /\ pc = "Classify"
  /\ Len(o.Hooks) = 2
  /\ Len(chooks) >= 1
  /\ Len(RunOf(EventPost, i)) = Len(o.Hooks) + Len(chooks)
  /\ Len(RunOf(EventPrev, i)) = Len(o.Hooks) + Len(chooks)

\* C9: every return of DoRequest is a response with a nil error or a nil
\* response with an error.
C9_ResultPairing ==
  pc = "Returned" =>
    \/ ret.rsp.kind = "rsp" /\ ret.err.kind = "nil"
    \/ ret.rsp.kind = "nil" /\ ret.err.kind # "nil"

\* a call returned a status error
C9_Witness ==
  /\ pc = "Returned"
  /\ ret.rsp.kind = "nil"
  /\ ret.err.kind = "status"

\* position of the first ';' of a header value, 0 when there is none
FirstSemi(content) ==
  IF \E k \in 1..Len(content) : content[k] = ";"
    THEN CHOOSE k \in 1..Len(content) :
           content[k] = ";" /\ \A j \in 1..(k - 1) : content[j] # ";"
    ELSE 0

\* C10: a 200 response is decoded with its Content-Type header cut at the
\* first semicolon when the header is present and non-empty, and with the
\* content type configured for the request otherwise.
C10_ContentTypePrecedence ==
  \A k \in 1..Len(decodeLog) :
    LET header == Last(dispatches).rsp.ContentType IN
    decodeLog[k].contentType =
      IF header # <<>>
        THEN IF FirstSemi(header) = 0 THEN header
             ELSE SubSeq(header, 1, FirstSemi(header) - 1)
        ELSE o.ContentType

\* C11: a call that succeeds with a result destination hands back a response
\* whose body reads back the bytes received in that response, the bytes that
\* were given to decode.
C11_ReturnedResponseBody ==
  (pc = "Returned" /\ ret.err = Nil /\ decodeLog # <<>>)
  => ret.rsp.Body = Last(decodeLog).data

\* C15: with a nil Backoff the call neither crashes nor waits when an attempt
\* with retry budget left fails with a timeout-classified error.
C15_NilBackoffNoWait ==
  o.Backoff = "nil" => pc \notin {"Panicked", "Retrying"}

(***************************************************************************)
(* Termination.  The wait loop is followed without a bound on the number   *)
(* of timers: at the bound the count of fired timers starts over.  The     *)
(* call's own steps are taken when they stay possible (the goroutine runs, *)
(* a timer that was set fires), a select whose context is done takes that  *)
(* case before another timer fires, and a deadline that was set passes;    *)
(* the caller need never cancel its context.                               *)
(***************************************************************************)
\* lines 146-147 again, at the bound of the count
WaitTimerAgain ==
  /\ pc = "Retrying"
  /\ timerFired = MaxTimerFires
  /\ timerFired' = 1
  /\ pc' = "Retrying"
  /\ UNCHANGED <<opts, chooks, o, body, hooks, i, callCtx, attemptCtx,
                 ev, rsp, err, ret, hookLog, dispatches, nextCalls, decodeLog>>
  /\ UNCHANGED aux

CallStep ==
  \/ Build
  \/ PreSend
  \/ Dispatch
  \/ PostSend
  \/ Classify
  \/ WaitCtxDone
  \/ WaitTimer
  \/ WaitTimerAgain

LiveNext == CallStep \/ CancelCall \/ AttemptDeadline

LiveSpec ==
  /\ Init
  /\ [][LiveNext]_vars
  /\ WF_vars(CallStep)
  /\ WF_vars(WaitCtxDone)
  /\ WF_vars(AttemptDeadline)

\* C18: every call eventually returns to its caller or, where the code
\* crashes instead (C15), ends; also with Timeout = 0 and a context that is
\* never cancelled.
C18_Termination == <>Terminal

(***************************************************************************)
(* URL resolution (DoRequest, lines 62-69).  A URL is a sequence of        *)
(* pieces: "/" or a run of bytes without one.                              *)
(***************************************************************************)
Slash == "/"
HostURL == <<"http:", Slash, Slash, "host">>

GivenURLs ==
  { <<"http:", Slash, Slash, "other", Slash, "users">>,
    <<"users">>,
    <<Slash, "users">>,
    <<"v1", Slash, "users">>,
    <<"httpd", Slash, "status">> }

BaseURLs == { <<>>, HostURL, HostURL \o <<Slash, "api">>, HostURL \o <<Slash, "api", Slash>> }

\* strings.HasPrefix(url, "http"): the first piece starts with these bytes
HasPrefixHttp(u) == u # <<>> /\ u[1] \in {"http:", "httpd"}

\* path.Clean of a path without "." and ".." elements: runs of slashes
\* become one slash and a trailing slash is dropped
RECURSIVE Clean(_)
Clean(u) ==
  IF Len(u) <= 1 THEN u
  ELSE IF u[1] = Slash /\ u[2] = Slash THEN Clean(Tail(u))
  ELSE IF Len(u) = 2 /\ u[2] = Slash THEN <<u[1]>>
  ELSE <<u[1]>> \o Clean(Tail(u))

\* path.Join(a, b): the non-empty elements joined by a slash, cleaned
Join(a, b) ==
  IF a = <<>> THEN (IF b = <<>> THEN <<>> ELSE Clean(b))
  ELSE IF b = <<>> THEN Clean(a)
  ELSE Clean(a \o <<Slash>> \o b)

\* lines 63-69
buildURL(u, obase, cbase) ==
  IF ~HasPrefixHttp(u)
    THEN IF obase # <<>> THEN Join(obase, u)
         ELSE IF cbase # <<>> THEN Join(obase, u)
         ELSE u
    ELSE u

InitURL ==
  /\ CallIdle
  /\ resolve \in [url : GivenURLs, obase : BaseURLs, cbase : BaseURLs,
                  requested : {Nil}]
  /\ codec = Unused
  /\ builder = Unused
  /\ share = Unused
  /\ sent = Unused

ResolveURL ==
  /\ resolve.requested = Nil
  /\ resolve' = [resolve EXCEPT
                   !.requested = [kind |-> "url",
                                  at |-> buildURL(resolve.url, resolve.obase, resolve.cbase)]]
  /\ UNCHANGED <<callvars, codec, builder, share, sent>>

SpecURL == InitURL /\ [][ResolveURL]_vars

\* the base URL configured for the call: the call's, else the client's
ConfiguredBase == IF resolve.obase # <<>> THEN resolve.obase ELSE resolve.cbase

\* a base URL and a relative path joined, the scheme and host of the base
\* kept as they are
JoinedURL(base, rel) ==
  SubSeq(base, 1, 4) \o Clean(SubSeq(base, 5, Len(base)) \o <<Slash>> \o rel)

\* C16: the URL requested is the given URL when that is absolute, and
\* otherwise the configured base URL (the call's, else the client's) joined
\* with the given path, scheme and host of the base kept.
C16_BaseURLResolution ==
  resolve.requested # Nil =>
    IF resolve.url[1] = "http:" THEN resolve.requested.at = resolve.url
    ELSE ConfiguredBase # <<>> =>
           resolve.requested.at = JoinedURL(ConfiguredBase, resolve.url)

(***************************************************************************)
(* The content codec on values (encode, toUrlValue, decode,                *)
(* parseUrlValue).  A scalar is its Go type and its text; a map is a       *)
(* function on some of the keys.  Encoded bytes are what the encoding      *)
(* writes: the key=value pairs of a form in key order, the members of a    *)
(* JSON object with their JSON types, the elements of an XML document,     *)
(* or raw text.                                                            *)
(***************************************************************************)
MaxValues == 2         \* most values of one key, most elements of a slice

Keys == {"a", "b"}
KeyOrder == <<"a", "b">>
Texts == {"x", "1"}

RECURSIVE SeqsUpTo(_, _)
SeqsUpTo(S, n) ==
  IF n = 0 THEN {<<>>}
  ELSE LET shorter == SeqsUpTo(S, n - 1) IN
       shorter \cup {Append(q, x) : q \in {r \in shorter : Len(r) = n - 1}, x \in S}

MapsTo(S) == UNION {[K -> S] : K \in SUBSET Keys}

Scalar(t, text) == [t |-> t, s |-> text, elems |-> <<>>]
Slice(t, elems) == [t |-> t, s |-> "", elems |-> elems]

\* the values of a map[string]interface{}: bool, int, string, []string
AnyValues ==
  {Scalar("bool", "true"), Scalar("int", "1"), Scalar("string", "x")}
    \cup {Slice("[]string", q) : q \in SeqsUpTo({"x"}, MaxValues)}

\* the values given to encode, each with its Go type (shape)
CodecInputs ==
  {[shape |-> "url.Values", value |-> m] : m \in MapsTo(SeqsUpTo(Texts, MaxValues) \ {<<>>})}
    \cup {[shape |-> "map[string]string", value |-> m] : m \in MapsTo(Texts)}
    \cup {[shape |-> "map[string]interface{}", value |-> m] : m \in MapsTo(AnyValues)}
    \cup {[shape |-> "struct", value |-> [a |-> Scalar("string", x), b |-> Scalar("int", "1")]] :
            x \in Texts}
    \cup {[shape |-> "string", value |-> x] : x \in {"", "x"}}

\* fmt.Sprintf("%+v", v) of a bool or a number: its text
Sprintf(v) == v.s

RECURSIVE PairsOf(_, _, _)
PairsOf(k, vals, n) ==
  IF n > Len(vals) THEN <<>> ELSE <<[k |-> k, v |-> vals[n]]>> \o PairsOf(k, vals, n + 1)

\* url.Values.Encode: the keys in sorted order, each value of a key as one
\* key=value pair
RECURSIVE UrlEncodeFrom(_, _)
UrlEncodeFrom(uv, n) ==
  IF n > Len(KeyOrder) THEN <<>>
  ELSE (IF KeyOrder[n] \in DOMAIN uv THEN PairsOf(KeyOrder[n], uv[KeyOrder[n]], 1) ELSE <<>>)
         \o UrlEncodeFrom(uv, n + 1)

UrlEncode(uv) == UrlEncodeFrom(uv, 1)

\* url.ParseQuery: every pair's value appended to the values of its key
RECURSIVE ParseQuery(_)
ParseQuery(pairs) ==
  IF pairs = <<>> THEN <<>>
  ELSE LET rest == ParseQuery(SubSeq(pairs, 1, Len(pairs) - 1))
           p == pairs[Len(pairs)]
       IN [k \in DOMAIN rest \cup {p.k} |->
             IF k = p.k THEN (IF k \in DOMAIN rest THEN rest[k] ELSE <<>>) \o <<p.v>>
             ELSE rest[k]]

\* toUrlValue: the outcomes it can have.  A map[string]interface{} is ranged
\* over in any order and the first field that is neither bool nor number
\* ends the loop: a string (or other kind) with ErrNotSupport, a slice with
\* elements with the panic of reflect.Value.Field on a slice
toUrlValue(in) ==
  IF in.shape = "url.Values" THEN {[uv |-> in.value, err |-> Nil, panic |-> FALSE]}
  ELSE IF in.shape = "map[string]string"
    THEN {[uv |-> [k \in DOMAIN in.value |-> <<in.value[k]>>], err |-> Nil, panic |-> FALSE]}
  ELSE IF in.shape = "map[string]interface{}"
    THEN LET m == in.value
             unsupported == {k \in DOMAIN m : m[k].t = "string"}
             panics == {k \in DOMAIN m : m[k].t = "[]string" /\ Len(m[k].elems) > 0}
             added == {k \in DOMAIN m : m[k].t \in {"bool", "int"}}
         IN IF unsupported = {} /\ panics = {}
              THEN {[uv |-> [k \in added |-> <<Sprintf(m[k])>>], err |-> Nil, panic |-> FALSE]}
              ELSE {[uv |-> <<>>, err |-> ErrNotSupport, panic |-> FALSE] : k \in unsupported}
                     \cup {[uv |-> <<>>, err |-> Nil, panic |-> TRUE] : k \in panics}
  ELSE {[uv |-> <<>>, err |-> ErrNotSupport, panic |-> FALSE]}

Bytes(form, data) == [form |-> form, data |-> data]

\* json.Marshal of a field
JsonOf(v) ==
  IF v.t = "[]string" THEN [j |-> "array", s |-> "", elems |-> v.elems]
  ELSE [j |-> (IF v.t = "int" THEN "number" ELSE v.t), s |-> v.s, elems |-> <<>>]

\* json.Unmarshal of a member into a field of Go type t
JsonInto(j, t) ==
  IF t = "interface{}"
    THEN IF j.j = "array" THEN Slice("[]interface{}", j.elems)
         ELSE Scalar(IF j.j = "number" THEN "float64" ELSE j.j, j.s)
  ELSE IF j.j = "array" THEN Slice(t, j.elems)
  ELSE Scalar(t, j.s)

\* encode of a value: the outcomes it can have
encodeValue(contentType, in) ==
  IF in.shape = "string"
    THEN {[bytes |-> Bytes("raw", in.value), err |-> Nil, panic |-> FALSE]}
  ELSE IF contentType = TypeJSON
    THEN {[bytes |-> Bytes("json",
                       IF in.shape = "url.Values"
                         THEN [k \in DOMAIN in.value |-> JsonOf(Slice("[]string", in.value[k]))]
                       ELSE IF in.shape = "map[string]string"
                         THEN [k \in DOMAIN in.value |-> JsonOf(Scalar("string", in.value[k]))]
                       ELSE [k \in DOMAIN in.value |-> JsonOf(in.value[k])]),
           err |-> Nil, panic |-> FALSE]}
  ELSE IF contentType = TypeXML
    THEN IF in.shape = "struct"
           THEN {[bytes |-> Bytes("xml", [k \in DOMAIN in.value |-> in.value[k].s]),
                  err |-> Nil, panic |-> FALSE]}
           ELSE {[bytes |-> Nil, err |-> [kind |-> "marshal"], panic |-> FALSE]}
  ELSE IF contentType = TypeForm
    THEN {[bytes |-> IF r.err = Nil /\ ~r.panic THEN Bytes("form", UrlEncode(r.uv)) ELSE Nil,
           err |-> r.err, panic |-> r.panic] : r \in toUrlValue(in)}
  ELSE IF contentType \in {TypeHTML, TypeText}
    THEN {[bytes |-> Nil, err |-> ErrInvalidType, panic |-> FALSE]}
  ELSE {[bytes |-> Nil, err |-> ErrNotSupport, panic |-> FALSE]}

\* len(data) == 0
Empty(bytes) ==
  \/ bytes.form = "raw" /\ bytes.data = ""
  \/ bytes.form = "form" /\ bytes.data = <<>>

\* parseUrlValue into a pointer to a value of the given Go type
parseUrlValue(values, shape) ==
  IF shape = "url.Values" THEN [dest |-> values, err |-> Nil]
  ELSE IF shape = "map[string]string"
    THEN [dest |-> [k \in DOMAIN values |-> values[k][1]], err |-> Nil]
  ELSE IF shape = "map[string]interface{}"
    THEN [dest |-> [k \in DOMAIN values |-> Scalar("string", values[k][1])], err |-> Nil]
  ELSE [dest |-> Nil, err |-> ErrNotSupport]

\* the Go type of field k of a destination
FieldType(in, k) ==
  IF in.shape = "map[string]interface{}" THEN "interface{}" ELSE in.value[k].t

\* decode of bytes into a pointer to a fresh value of the shape of in
decodeValue(contentType, bytes, in) ==
  IF Empty(bytes) THEN [dest |-> Nil, err |-> ErrNoData]
  ELSE IF in.shape = "string" THEN [dest |-> bytes.data, err |-> Nil]
  ELSE IF contentType = TypeJSON
    THEN [dest |-> IF in.shape = "url.Values"
                     THEN [k \in DOMAIN bytes.data |-> bytes.data[k].elems]
                   ELSE IF in.shape = "map[string]string"
                     THEN [k \in DOMAIN bytes.data |-> bytes.data[k].s]
                   ELSE [k \in DOMAIN bytes.data |-> JsonInto(bytes.data[k], FieldType(in, k))],
          err |-> Nil]
  ELSE IF contentType = TypeXML
    THEN [dest |-> [k \in DOMAIN bytes.data |-> Scalar(in.value[k].t, bytes.data[k])],
          err |-> Nil]
  ELSE IF contentType = TypeForm
    THEN parseUrlValue(ParseQuery(bytes.data), in.shape)
  ELSE [dest |-> Nil, err |-> ErrNotSupport]

InitCodec ==
  /\ CallIdle
  /\ codec \in [stage : {"input"}, contentType : {TypeJSON, TypeXML, TypeForm},
                in : CodecInputs, bytes : {Nil}, err : {Nil}, dest : {Nil},
                derr : {Nil}]
  /\ resolve = Unused
  /\ builder = Unused
  /\ share = Unused
  /\ sent = Unused

\* encode(contentType, value)
CodecEncode ==
  /\ codec.stage = "input"
  /\ \E r \in encodeValue(codec.contentType, codec.in) :
       codec' = [codec EXCEPT !.stage = IF r.panic THEN "panicked" ELSE "encoded",
                              !.bytes = r.bytes, !.err = r.err]
  /\ UNCHANGED <<callvars, resolve, builder, share, sent>>

\* decode(contentType, bytes, &fresh) after an encode that succeeded
CodecDecode ==
  /\ codec.stage = "encoded"
  /\ codec.err = Nil
  /\ LET r == decodeValue(codec.contentType, codec.bytes, codec.in) IN
       codec' = [codec EXCEPT !.stage = "decoded", !.dest = r.dest, !.derr = r.err]
  /\ UNCHANGED <<callvars, resolve, builder, share, sent>>

SpecCodec == InitCodec /\ [][CodecEncode \/ CodecDecode]_vars

\* C14: a value whose encode succeeds decodes, with the same content type
\* (JSON, XML or form), into a fresh destination of its shape without an
\* error, and the destination then equals the value.
C14_RoundTrip ==
  codec.stage = "decoded" => (codec.derr = Nil /\ codec.dest = codec.in.value)

\* the fields of the value are all of the kinds C19 names
FormFields ==
  /\ codec.contentType = TypeForm
  /\ codec.in.shape \in {"url.Values", "map[string]string", "map[string]interface{}"}

\* the pairs a form encoding has for key k
PairsFor(k) == SelectSeq(codec.bytes.data, LAMBDA p : p.k = k)

\* C19: encode with the form content type does not fail and does not crash
\* for the three mappings; a scalar field is one key=value pair with its
\* text, a field with n values or elements is n pairs in their order.
C19_FormFlattening ==
  (FormFields /\ codec.stage # "input")
  => /\ codec.stage # "panicked"
     /\ codec.err = Nil
     /\ \A k \in DOMAIN codec.in.value :
          LET v == codec.in.value[k]
              want == IF codec.in.shape = "url.Values" THEN v
                      ELSE IF codec.in.shape = "map[string]string" THEN <<v>>
                      ELSE IF v.t = "[]string" THEN v.elems
                      ELSE <<v.s>>
          IN PairsFor(k) = [n \in 1..Len(want) |-> [k |-> k, v |-> want[n]]]

(***************************************************************************)
(* The Options builders (AddHeader, AddHeaders, AddQuery, AddQueries,      *)
(* AddCookie, AddData, AddHook) and the request DoRequest makes of the     *)
(* options.  A Go map is nil or made; its entries are a function from      *)
(* keys to the values of each key.                                         *)
(***************************************************************************)
MaxOptions == 3        \* most options applied to one Options value

NilMap == [nil |-> TRUE, m |-> <<>>]
MakeMap == [nil |-> FALSE, m |-> <<>>]

HeaderKeys == {"h", "g"}
\* the map[string]string arguments of WithHeaders and WithQueries
StringMaps == UNION {[K -> {"v"}] : K \in SUBSET HeaderKeys}

\* dict[key] = append(dict[key], v)
addValue(dict, key, v) ==
  [dict EXCEPT !.m = [k \in DOMAIN dict.m \cup {key} |->
                        IF k = key
                          THEN (IF k \in DOMAIN dict.m THEN dict.m[k] ELSE <<>>) \o <<v>>
                          ELSE dict.m[k]]]

\* a write to an entry of a nil map panics; ranging over no entries writes
\* nothing
addValueMapPanics(result, kv) == result.nil /\ DOMAIN kv # {}

addValueMap(result, kv) ==
  [result EXCEPT !.m = [k \in DOMAIN result.m \cup DOMAIN kv |->
                          (IF k \in DOMAIN result.m THEN result.m[k] ELSE <<>>)
                            \o (IF k \in DOMAIN kv THEN <<kv[k]>> ELSE <<>>)]]

Made(dict) == IF dict.nil THEN MakeMap ELSE dict

ZeroBuilder ==
  [Header |-> NilMap, Query |-> NilMap, Cookies |-> <<>>, Datas |-> NilMap,
   Hooks |-> <<>>]

AddHeader(b, key, value) == [b EXCEPT !.Header = addValue(Made(b.Header), key, value)]

\* AddHeaders makes the Header map and then adds the entries to o.Query
AddHeaders(b, headers) ==
  [b EXCEPT !.Header = Made(b.Header), !.Query = addValueMap(b.Query, headers)]

AddQuery(b, key, value) == [b EXCEPT !.Query = addValue(Made(b.Query), key, value)]

AddQueries(b, queries) == [b EXCEPT !.Query = addValueMap(Made(b.Query), queries)]

AddCookie(b, cookie) == [b EXCEPT !.Cookies = Append(b.Cookies, cookie)]

AddData(b, k, v) ==
  [b EXCEPT !.Datas = [nil |-> FALSE,
                       m |-> [x \in DOMAIN b.Datas.m \cup {k} |->
                                IF x = k THEN v ELSE b.Datas.m[x]]]]

AddHook(b, hook) == [b EXCEPT !.Hooks = Append(b.Hooks, hook)]

\* the options one step of the builder can apply
BuilderOptions ==
  {[name |-> "WithHeader", key |-> k, value |-> "v", m |-> <<>>] : k \in HeaderKeys}
    \cup {[name |-> "WithHeaders", key |-> "", value |-> "", m |-> m] : m \in StringMaps}
    \cup {[name |-> "WithQuery", key |-> "q", value |-> "v", m |-> <<>>]}
    \cup {[name |-> "WithQueries", key |-> "", value |-> "", m |-> m] :
            m \in StringMaps \ {<<>>}}
    \cup {[name |-> n, key |-> "c", value |-> "v", m |-> <<>>] :
            n \in {"WithCookie", "WithData", "WithHook"}}

ApplyBuilder(b, op) ==
  IF op.name = "WithHeader" THEN AddHeader(b, op.key, op.value)
  ELSE IF op.name = "WithHeaders" THEN AddHeaders(b, op.m)
  ELSE IF op.name = "WithQuery" THEN AddQuery(b, op.key, op.value)
  ELSE IF op.name = "WithQueries" THEN AddQueries(b, op.m)
  ELSE IF op.name = "WithCookie" THEN AddCookie(b, op.key)
  ELSE IF op.name = "WithData" THEN AddData(b, op.key, op.value)
  ELSE AddHook(b, op.key)

\* the header and the query of the request DoRequest makes: the Header map
\* of the options when it has entries, the Query entries added to the (empty)
\* query of the url
RequestOf(b) ==
  [Header |-> IF DOMAIN b.Header.m # {} THEN b.Header.m ELSE <<>>,
   Query |-> IF DOMAIN b.Query.m # {} THEN b.Query.m ELSE <<>>]

NoOption == [name |-> "", key |-> "", value |-> "", m |-> <<>>]

InitBuilder ==
  /\ CallIdle
  /\ builder = [stage |-> "building", o |-> ZeroBuilder, before |-> ZeroBuilder,
                last |-> NoOption, applied |-> 0, req |-> RequestOf(ZeroBuilder)]
  /\ resolve = Unused
  /\ codec = Unused
  /\ share = Unused
  /\ sent = Unused

\* fn(o) for one option of the list given to build
BuilderApply ==
  /\ builder.stage = "building"
  /\ builder.applied < MaxOptions
  /\ \E op \in BuilderOptions :
       IF op.name = "WithHeaders" /\ addValueMapPanics(builder.o.Query, op.m)
         THEN builder' = [builder EXCEPT !.stage = "panicked", !.before = builder.o,
                                         !.o.Header = Made(builder.o.Header),
                                         !.last = op, !.applied = @ + 1]
         ELSE builder' = [builder EXCEPT !.before = builder.o,
                                         !.o = ApplyBuilder(builder.o, op),
                                         !.last = op, !.applied = @ + 1]
  /\ UNCHANGED <<callvars, resolve, codec, share, sent>>

\* DoRequest makes the request of the built options
BuilderRequest ==
  /\ builder.stage = "building"
  /\ builder' = [builder EXCEPT !.stage = "requested", !.req = RequestOf(builder.o)]
  /\ UNCHANGED <<callvars, resolve, codec, share, sent>>

SpecBuilder == InitBuilder /\ [][BuilderApply \/ BuilderRequest]_vars

\* the values m adds under key k
Added(m, k) == IF k \in DOMAIN m THEN <<m[k]>> ELSE <<>>

ValuesOf(dict, k) == IF k \in DOMAIN dict THEN dict[k] ELSE <<>>

\* C20: when the last option applied is WithHeaders(m), it did not fail, the
\* Header collection is the one before with each entry of m added, Query,
\* Cookies, Datas and Hooks are the ones before; and the request made of the
\* options carries the entries of m as headers and not as query parameters.
C20_WithHeadersFrame ==
  builder.last.name = "WithHeaders"
  => /\ builder.stage # "panicked"
     /\ \A k \in HeaderKeys :
          ValuesOf(builder.o.Header.m, k)
            = ValuesOf(builder.before.Header.m, k) \o Added(builder.last.m, k)
     /\ builder.o.Query = builder.before.Query
     /\ builder.o.Cookies = builder.before.Cookies
     /\ builder.o.Datas = builder.before.Datas
     /\ builder.o.Hooks = builder.before.Hooks
     /\ builder.stage = "requested"
          => \A k \in HeaderKeys :
               /\ ValuesOf(builder.req.Header, k) = ValuesOf(builder.o.Header.m, k)
               /\ ValuesOf(builder.req.Query, k) = ValuesOf(builder.before.Query.m, k)

(***************************************************************************)
(* The request objects of one call.  The event keeps the pointer to the    *)
(* request made before the loop; req.WithContext makes a shallow copy, a   *)
(* new request object with the same fields, the Header field being a       *)
(* reference to the same map.  reqs and maps are the objects allocated so  *)
(* far; a pointer is an index.                                             *)
(***************************************************************************)
\* what a pre-send hook does to ev.Req
Mutations == {"Header.Set", "Header=", "Host=", "Body="}

\* the request the transport or a hook sees through pointer p
View(st, p) ==
  [Header |-> st.maps[st.reqs[p].Header], Host |-> st.reqs[p].Host,
   Body |-> st.reqs[p].Body]

NoView == [Header |-> {}, Host |-> "", Body |-> ""]

InitSent ==
  /\ CallIdle
  /\ \E timeout \in BOOLEAN, hasBody \in BOOLEAN :
       sent = [stage |-> "top", timeout |-> timeout, hasBody |-> hasBody,
               reqs |-> <<[Header |-> 1, Host |-> "host", Body |-> "none"]>>,
               maps |-> <<{"h"}>>, req |-> 1, evReq |-> 1, i |-> 0, hooked |-> 0,
               dispatched |-> NoView, event |-> NoView]
  /\ resolve = Unused
  /\ codec = Unused
  /\ builder = Unused
  /\ share = Unused

\* the top of the loop: the body is attached to req, and with a timeout req
\* becomes a copy of itself with the attempt's context; ev.SetPrev(i)
SentAttempt ==
  /\ sent.stage = "top"
  /\ LET attached == IF sent.hasBody
                       THEN [sent.reqs EXCEPT ![sent.req].Body = "body"]
                       ELSE sent.reqs
     IN sent' = IF sent.timeout
                  THEN [sent EXCEPT !.reqs = Append(attached, attached[sent.req]),
                                    !.req = Len(attached) + 1,
                                    !.stage = "prev", !.hooked = 0]
                  ELSE [sent EXCEPT !.reqs = attached, !.stage = "prev", !.hooked = 0]
  /\ UNCHANGED <<callvars, resolve, codec, builder, share>>

\* one pre-send hook changes the request of the event
SentHook ==
  /\ sent.stage = "prev"
  /\ sent.hooked < MaxHooks
  /\ \E mut \in Mutations :
       LET p == sent.evReq IN
         sent' = [sent EXCEPT
           !.hooked = @ + 1,
           !.maps = IF mut = "Header.Set"
                      THEN [@ EXCEPT ![sent.reqs[p].Header] = @ \cup {"trace"}]
                    ELSE IF mut = "Header=" THEN Append(@, {"replaced"})
                    ELSE @,
           !.reqs = IF mut = "Header=" THEN [@ EXCEPT ![p].Header = Len(sent.maps) + 1]
                    ELSE IF mut = "Host=" THEN [@ EXCEPT ![p].Host = "hooked"]
                    ELSE IF mut = "Body=" THEN [@ EXCEPT ![p].Body = "hooked"]
                    ELSE @]
  /\ UNCHANGED <<callvars, resolve, codec, builder, share>>

\* c.client.Do(req)
SentDo ==
  /\ sent.stage = "prev"
  /\ sent' = [sent EXCEPT !.stage = "sent",
                          !.dispatched = View(sent, sent.req),
                          !.event = View(sent, sent.evReq)]
  /\ UNCHANGED <<callvars, resolve, codec, builder, share>>

\* a timeout error with attempts left: the loop goes round
SentRetry ==
  /\ sent.stage = "sent"
  /\ sent.i < MaxRetry
  /\ sent' = [sent EXCEPT !.stage = "top", !.i = @ + 1]
  /\ UNCHANGED <<callvars, resolve, codec, builder, share>>

SpecSent == InitSent /\ [][SentAttempt \/ SentHook \/ SentDo \/ SentRetry]_vars

\* C17: the request given to the transport on an attempt is the request of
\* the event as the pre-send hooks of that attempt left it, whatever field
\* they changed, with or without a timeout, on every attempt.
C17_HookSeesSentRequest ==
  sent.stage = "sent" => sent.dispatched = sent.event

(***************************************************************************)
(* Two DoRequest calls on one Client.  A call is given the Options value S *)
(* through WithOptions ("shared": *o = *opts copies the fields, so the     *)
(* call's Header map, Query map, Cookies and Hooks slices are the ones of  *)
(* S) or options of its own ("own": its maps and slices are made by its    *)
(* own build).  An object is named by its owner and its field.  The Cookie *)
(* header is the sequence of the cookies joined into it.                   *)
(***************************************************************************)
MaxCookies == 2        \* most cookies set in the options

Calls == {"c1", "c2"}
Other(c) == CHOOSE d \in Calls : d # c

Obj(owner, field) == [owner |-> owner, field |-> field]

\* the object a field of the call's options refers to
Ref(st, c, field) == Obj(IF st.mode[c] = "shared" THEN "S" ELSE c, field)

InFlight(st, c) == st.pc[c] \notin {"start", "done", "fatal"}

\* the accesses so far with this one added, when the other call is running
Access(st, c, obj, rw) ==
  IF InFlight(st, Other(c))
    THEN st.accesses \cup {[call |-> c, obj |-> obj, rw |-> rw]}
    ELSE st.accesses

InitShare ==
  /\ CallIdle
  /\ \E mode \in [Calls -> {"shared", "own"}], n \in 1..MaxCookies,
        spare \in BOOLEAN, clientHooks \in BOOLEAN :
       share = [mode |-> mode,
                Cookies |-> [k \in 1..n |-> "c"],
                spare |-> spare, clientHooks |-> clientHooks,
                cookieHeader |-> [owner \in {"S"} \cup Calls |-> <<>>],
                pc |-> [c \in Calls |-> "start"],
                k |-> [c \in Calls |-> 1],
                got |-> [c \in Calls |-> <<>>],
                sentCookie |-> [c \in Calls |-> <<>>],
                overlap |-> FALSE,
                accesses |-> {}]
  /\ resolve = Unused
  /\ codec = Unused
  /\ builder = Unused
  /\ sent = Unused

Step(st, c, to) ==
  [st EXCEPT !.pc[c] = to, !.overlap = @ \/ InFlight(st, Other(c))]

\* o.build(opts...): the call starts
ShareBuild(c) ==
  /\ share.pc[c] = "start"
  /\ share' = Step(share, c, "header")
  /\ UNCHANGED <<callvars, resolve, codec, builder, sent>>

\* len(o.Header) > 0: req.Header = o.Header; len(o.Query) > 0: toRawQuery
ShareHeader(c) ==
  /\ share.pc[c] = "header"
  /\ share' = [Step(share, c, "cookie") EXCEPT
                 !.accesses = Access(share, c, Ref(share, c, "Header"), "r")
                                \cup Access(share, c, Ref(share, c, "Query"), "r")]
  /\ UNCHANGED <<callvars, resolve, codec, builder, sent>>

\* req.AddCookie(c): r.Header.Get("Cookie")
ShareGetCookie(c) ==
  /\ share.pc[c] = "cookie"
  /\ share' = [Step(share, c, "setcookie") EXCEPT
                 !.got[c] = share.cookieHeader[Ref(share, c, "Header").owner],
                 !.accesses = Access(share, c, Ref(share, c, "Header"), "r")]
  /\ UNCHANGED <<callvars, resolve, codec, builder, sent>>

\* req.AddCookie(c): r.Header.Set("Cookie", ...) of the value read with the
\* cookie joined; a write while the other call is inside its own AddCookie
\* on the same map can also end the program (concurrent map writes)
ShareSetCookie(c) ==
  /\ share.pc[c] = "setcookie"
  /\ LET obj == Ref(share, c, "Header")
         racing == /\ share.pc[Other(c)] = "setcookie"
                   /\ Ref(share, Other(c), "Header") = obj
         more == share.k[c] < Len(share.Cookies)
     IN \E fatal \in (IF racing THEN BOOLEAN ELSE {FALSE}) :
          share' = IF fatal
                     THEN [Step(share, c, "fatal") EXCEPT
                             !.accesses = Access(share, c, obj, "w")]
                     ELSE [Step(share, c, IF more THEN "cookie" ELSE "hooks") EXCEPT
                             !.cookieHeader[obj.owner] =
                                share.got[c] \o <<share.Cookies[share.k[c]]>>,
                             !.k[c] = @ + 1,
                             !.accesses = Access(share, c, obj, "w")]
  /\ UNCHANGED <<callvars, resolve, codec, builder, sent>>

\* hooks := append(o.Hooks, c.hooks...): the client's hooks are written
\* into the array of o.Hooks when it has the capacity
ShareAppendHooks(c) ==
  /\ share.pc[c] = "hooks"
  /\ share' = [Step(share, c, "do") EXCEPT
                 !.accesses = Access(share, c, Ref(share, c, "Hooks"),
                                     IF share.spare /\ share.clientHooks THEN "w" ELSE "r")]
  /\ UNCHANGED <<callvars, resolve, codec, builder, sent>>

\* c.client.Do(req): the transport reads the header of the request
ShareDo(c) ==
  /\ share.pc[c] = "do"
  /\ share' = [Step(share, c, "done") EXCEPT
                 !.sentCookie[c] = share.cookieHeader[Ref(share, c, "Header").owner],
                 !.accesses = Access(share, c, Ref(share, c, "Header"), "r")]
  /\ UNCHANGED <<callvars, resolve, codec, builder, sent>>

ShareNext ==
  \E c \in Calls :
    \/ ShareBuild(c)
    \/ ShareHeader(c)
    \/ ShareGetCookie(c)
    \/ ShareSetCookie(c)
    \/ ShareAppendHooks(c)
    \/ ShareDo(c)

SpecShare == InitShare /\ [][ShareNext]_vars

\* C12: when the calls given S run one after another, the Header of S after
\* a call is the Header before the first call (no Cookie entry), and a second
\* call sends the cookies the first one sent.
C12_OptionsSnapshot ==
  ~share.overlap
  => /\ (\E c \in Calls : share.mode[c] = "shared" /\ share.pc[c] = "done")
          => share.cookieHeader["S"] = <<>>
     /\ (\A c \in Calls : share.mode[c] = "shared" /\ share.pc[c] = "done")
          => share.sentCookie["c1"] = share.sentCookie["c2"]

\* C13: no object other than the Backoff is written by one call while the
\* other runs and read or written by the other call while the first runs.
C13_CallIsolation ==
  \A a \in share.accesses, b \in share.accesses :
    (a.call # b.call /\ a.obj = b.obj /\ a.obj.field # "Backoff")
      => (a.rw = "r" /\ b.rw = "r")
====
